---- MODULE Spec2Model ----
(***************************************************************************)
(* Dynamic field selection of rest_framework_dyn_serializer.py.            *)
(*                                                                         *)
(* A serializer tree author -> article -> review (views_author.py) is      *)
(* built for one request.  Field names and query-parameter values are      *)
(* sequences of one-character strings, so that str.split(',') is modelled  *)
(* by what it does.  Python lists whose order the code itself discards     *)
(* (list(set(...))) are modelled as sets.                                  *)
(*                                                                         *)
(* Framework behaviour the code relies on (rest_framework.serializers):    *)
(*  - Serializer.fields is a cached property: the registry is built on     *)
(*    first access, from get_field_names(), after a deep copy of the       *)
(*    declared fields, which re-runs __init__ of every declared nested     *)
(*    serializer without a context;                                        *)
(*  - a field put into the registry is bound to its parent, and            *)
(*    Field.context is the context of the root of the parent chain.        *)
(***************************************************************************)
EXTENDS Integers, Sequences, FiniteSets, TLC

VARIABLES
    cls,      \* per level: the serializer class (kind, Meta, declared nested field)
    kw,       \* per level: the keyword arguments the instance is created with
    request,  \* context['request'] of the root serializer
    db,       \* primary keys of the rows of the bound models
    ser,      \* per level: the serializer instance
    pc,       \* position of the root's __init__: start, exclude, done, failed
    cur,      \* the level whose exclude_omitted_fields call is pending
    frames,   \* per level: the parent_limit_fields argument it was called with
    ret       \* the last result of is_field_requested / to_internal_value

vars == <<cls, kw, request, db, ser, pc, cur, frames, ret>>

----------------------------------------------------------------------------
(* Bounds *)

\* total number of characters of the query-parameter values of a request
MaxQuery == 3
\* the rows of every bound model have the primary keys 1..MaxPk
MaxPk == 1

----------------------------------------------------------------------------
(* Vocabulary *)

\* author -> article -> review
NumLevels == 3
Nodes == 1..NumLevels

Comma == ","
\* characters a query-parameter value is made of
Chars == {"i", "a", Comma}

\* field names: id, name/title/summary, article/review, and a name no model has
id == <<"i">>
name == <<"n">>
rel == <<"a">>
bogus == <<"x">>

None == [given |-> FALSE, val |-> {}]
Some(v) == [given |-> TRUE, val |-> v]
NoValue == [given |-> FALSE, val |-> <<>>]
Value(s) == [given |-> TRUE, val |-> s]

ParamNames == {"author_fields", "article_fields", "review_fields"}

SeqsUpTo(S, k) == UNION {[1..m -> S] : m \in 0..k}


----------------------------------------------------------------------------
(* Pure functions of rest_framework_dyn_serializer.py *)

\* str.split(','): the pieces between the commas, empty pieces included
RECURSIVE Split(_)
Split(s) ==
    IF \A k \in 1..Len(s) : s[k] # Comma
    THEN <<s>>
    ELSE LET k == CHOOSE j \in 1..Len(s) :
                      s[j] = Comma /\ \A h \in 1..(j - 1) : s[h] # Comma
         IN <<SubSeq(s, 1, k - 1)>> \o Split(SubSeq(s, k + 1, Len(s)))

ToSet(seq) == {seq[k] : k \in 1..Len(seq)}

\* a variant that forgets Meta.exclude
SetAllowedFields_NoExclude(c, fields) ==
    LET meta_fields == IF c.fields.given THEN c.fields.val ELSE c.model_fields
    IN IF ~fields.given \/ fields.val = {}
       THEN meta_fields
       ELSE {f \in meta_fields : f \in fields.val}

\* set_allowed_fields: Meta.fields (or the model's fields), restricted to a
\* non-empty fields argument, minus Meta.exclude
SetAllowedFields(c, fields) ==
    LET meta_fields == IF c.fields.given THEN c.fields.val ELSE c.model_fields
        include == IF ~fields.given \/ fields.val = {}
                   THEN meta_fields
                   ELSE {f \in meta_fields : f \in fields.val}
        exclude == IF c.exclude.given THEN c.exclude.val ELSE {}
    IN include \ exclude

\* list(getattr(self.Meta, 'default_fields', ['id']))
DefaultFields(c) == IF c.default_fields.given THEN c.default_fields.val ELSE {id}

\* kwargs.pop('limit_fields', getattr(self.Meta, 'limit_fields', False))
LimitFields(c, k) ==
    IF k.limit_fields # "absent" THEN k.limit_fields
    ELSE IF c.limit_fields # "absent" THEN c.limit_fields
    ELSE "False"

\* a variant that checks nothing
DefaultFieldsAllowed_Unchecked(default_fields, allowed) == TRUE

\* the assertions on Meta.default_fields of DynModelSerializer.__init__
DefaultFieldsAllowed(default_fields, allowed) ==
    \A field_name \in default_fields : field_name \in allowed

NoRequest == [present |-> FALSE, method |-> "", query_params |-> [p \in ParamNames |-> NoValue]]

Absent ==
    [st |-> "absent", nested |-> FALSE, default_fields |-> {}, limit_fields |-> "absent",
     allowed |-> {}, requested |-> {}, built |-> FALSE, fields |-> {}, bound |-> FALSE]

Failed == [Absent EXCEPT !.st = "failed"]

\* DynModelSerializer.__init__ up to the call of the mixin's __init__
DynInit(c, k) ==
    IF ~c.hasModel \/ ~c.hasParam
    THEN Failed
    ELSE LET allowed == SetAllowedFields(c, k.fields)
         IN IF DefaultFieldsAllowed(DefaultFields(c), allowed)
            THEN [Absent EXCEPT !.st = "ok",
                                !.nested = k.nested,
                                !.default_fields = DefaultFields(c),
                                !.limit_fields = LimitFields(c, k),
                                !.allowed = allowed]
            ELSE Failed

\* request_all_allowed_fields: appends the allowed fields (a no-op in the mixin)
RequestAllAllowedFields(self, c) ==
    IF c.kind = "dyn"
    THEN [self EXCEPT !.requested = @ \cup self.allowed]
    ELSE self

\* a variant that limits under every method
LimitsFields_AnyMethod(req) == req.present

\* if request: if request.method == 'GET': the fields are limited for reads only
LimitsFields(req) == req.present /\ req.method = "GET"

\* DynSerializerMixin.__init__ without the GET branch, which the caller runs
MixinInit(self, c, req) ==
    IF req.present
    THEN IF LimitsFields(req)
         THEN self
         ELSE RequestAllAllowedFields([self EXCEPT !.limit_fields = "False"], c)
    ELSE RequestAllAllowedFields(self, c)

\* the whole __init__ of an instance of class c
NewInstance(c, k, req) ==
    IF c.kind = "dyn"
    THEN LET self == DynInit(c, k)
         IN IF self.st = "failed" THEN self ELSE MixinInit(self, c, req)
    ELSE MixinInit([Absent EXCEPT !.st = "ok"], c, req)

\* get_field_names: the override of DynModelSerializer; a plain ModelSerializer
\* with the mixin names Meta.fields
GetFieldNames(self, c) ==
    IF c.kind = "dyn" THEN self.requested ELSE c.fields.val

\* a variant that keeps the names that are not allowed
GetRequestedFieldNames_Unfiltered(self, c, req) ==
    IF c.kind = "dyn"
    THEN LET fields_param_value == req.query_params[c.fields_param]
         IN IF fields_param_value.given
            THEN ToSet(Split(fields_param_value.val))
            ELSE self.default_fields
    ELSE self.fields

\* a variant that reads the parameter of the root at every level
GetRequestedFieldNames_RootParam(self, c, req) ==
    IF c.kind = "dyn"
    THEN LET fields_param_value == req.query_params["author_fields"]
         IN IF fields_param_value.given
            THEN self.allowed \cap ToSet(Split(fields_param_value.val))
            ELSE self.default_fields
    ELSE self.fields

\* get_requested_field_names, of DynModelSerializer and of the mixin
GetRequestedFieldNames(self, c, req) ==
    IF c.kind = "dyn"
    THEN LET fields_param_value == req.query_params[c.fields_param]
         IN IF fields_param_value.given
            THEN LET requested_fields == Split(fields_param_value.val)
                 IN IF Len(requested_fields) > 0
                    THEN self.allowed \cap ToSet(requested_fields)
                    ELSE self.default_fields
            ELSE self.default_fields
    ELSE self.fields

\* getattr(self, 'limit_fields', parent_limit_fields)
ResolveLimitFields(self, parent_limit_fields) ==
    IF self.limit_fields # "absent" THEN self.limit_fields ELSE parent_limit_fields

\* a variant that also keeps the resolved flag on the instance
SetRequestedFields_KeepsFlag(self, limit_fields, field_names) ==
    [self EXCEPT !.requested = field_names, !.limit_fields = limit_fields]

\* limit_fields = getattr(...); self._requested_fields = field_names: the flag
\* stays a local variable
SetRequestedFields(self, limit_fields, field_names) ==
    [self EXCEPT !.requested = field_names]

\* for field_name in existing - allowed: self.fields.pop(field_name)
PopOmitted(existing, allowed) == existing \ (existing \ allowed)

----------------------------------------------------------------------------
(* The serializer classes and the requests of the scenarios *)

NoKwargs == [fields |-> None, limit_fields |-> "absent", nested |-> FALSE]

\* AuthorDynSerializer, ArticleDynSerializer, ReviewDynSerializer: level n
\* declares the nested field rel, served by level n + 1
DynClass(n) ==
    [kind |-> "dyn", hasModel |-> TRUE, hasParam |-> TRUE,
     fields_param |-> CASE n = 1 -> "author_fields"
                        [] n = 2 -> "article_fields"
                        [] OTHER -> "review_fields",
     fields |-> Some({id, name, rel}),
     model_fields |-> IF n < NumLevels THEN {id, name} ELSE {id, name, rel},
     default_fields |-> IF n = 2 THEN Some({id, name}) ELSE None,
     exclude |-> None,
     limit_fields |-> "absent",
     child |-> IF n < NumLevels THEN n + 1 ELSE 0,
     childName |-> rel,
     many |-> TRUE]

\* AuthorDynMixinSerializer, ArticleDynMixinSerializer
MixinClass(n) ==
    [DynClass(n) EXCEPT !.kind = "mixin", !.hasParam = FALSE, !.default_fields = None]

Limited(c) == [c EXCEPT !.limit_fields = "True"]

\* the variants of each level: the class and the keyword arguments
RootVariants ==
    {<<DynClass(1), NoKwargs>>, <<Limited(DynClass(1)), NoKwargs>>, <<MixinClass(1), NoKwargs>>}

MidVariants ==
    {<<DynClass(2), NoKwargs>>,
     <<Limited(DynClass(2)), NoKwargs>>,
     <<[Limited(DynClass(2)) EXCEPT !.many = FALSE],
       [NoKwargs EXCEPT !.limit_fields = "False"]>>,
     <<MixinClass(2), NoKwargs>>}

LeafVariants ==
    {<<Limited(DynClass(3)), [NoKwargs EXCEPT !.nested = TRUE]>>}

\* the configurations of one root class: Meta.fields, Meta.exclude,
\* Meta.default_fields, Meta.limit_fields and the fields argument
RootConfigs ==
    {<<[DynClass(1) EXCEPT !.fields = f, !.exclude = e, !.default_fields = d,
                           !.limit_fields = l],
       [NoKwargs EXCEPT !.fields = a]>> :
        f \in {None, Some({id, name, rel})},
        e \in {None, Some({name}), Some({id})},
        d \in {None, Some({}), Some({id, name}), Some({bogus})},
        l \in {"True", "False"},
        a \in {None, Some({}), Some({id}), Some({rel, bogus})}}
    \cup {<<[DynClass(1) EXCEPT !.hasModel = FALSE], NoKwargs>>,
          <<[DynClass(1) EXCEPT !.hasParam = FALSE], NoKwargs>>}

QueryValues(k) == {NoValue} \cup {Value(s) : s \in SeqsUpTo(Chars, k)}

Query(a, b, c) ==
    [p \in ParamNames |-> CASE p = "author_fields" -> a
                            [] p = "article_fields" -> b
                            [] OTHER -> c]

\* the query strings of at most MaxQuery characters of parameter values
Queries ==
    UNION {UNION {{Query(a, b, c) :
                      c \in QueryValues(MaxQuery - Len(a.val) - Len(b.val))} :
                  b \in QueryValues(MaxQuery - Len(a.val))} :
           a \in QueryValues(MaxQuery)}

\* the query strings that name the root's parameter alone
RootQueries == {Query(a, NoValue, NoValue) : a \in QueryValues(MaxQuery)}

Requests(queries) ==
    {NoRequest}
    \cup {[present |-> TRUE, method |-> m, query_params |-> q] :
            m \in {"GET", "POST"}, q \in queries}

NoRet == [op |-> "none", node |-> 0, field |-> <<>>, data |-> [type |-> "none", v |-> 0],
          val |-> "none", obj |-> 0]

\* the state before the root serializer is created
Start(r, m, l, q) ==
    /\ cls = [n \in Nodes |-> CASE n = 1 -> r[1] [] n = 2 -> m[1] [] OTHER -> l[1]]
    /\ kw = [n \in Nodes |-> CASE n = 1 -> r[2] [] n = 2 -> m[2] [] OTHER -> l[2]]
    /\ request = q
    /\ db = 1..MaxPk
    /\ ser = [n \in Nodes |-> Absent]
    /\ pc = "start"
    /\ cur = 0
    /\ frames = [n \in Nodes |-> "none"]
    /\ ret = NoRet

\* the scenarios: every combination of the variants of the three levels under
\* every request, and every configuration of the root class under the requests
\* that name its parameter
Init ==
    \/ \E q \in Requests(Queries) :
         \E r \in RootVariants, m \in MidVariants, l \in LeafVariants :
             Start(r, m, l, q)
    \/ \E q \in Requests(RootQueries) :
         \E r \in RootConfigs :
             Start(r, <<Limited(DynClass(2)), NoKwargs>>,
                   <<Limited(DynClass(3)), NoKwargs>>, q)

----------------------------------------------------------------------------
(* Operations *)

\* Serializer.fields on first access: the registry is built from
\* get_field_names(), and the declared nested serializer is copied, which runs
\* its __init__ without a context; it is bound when its name is in the registry
BuildFields(S, n) ==
    IF S[n].built
    THEN S
    ELSE LET names == GetFieldNames(S[n], cls[n])
             S1 == [S EXCEPT ![n].built = TRUE, ![n].fields = names]
             ch == cls[n].child
         IN IF ch = 0
            THEN S1
            ELSE [S1 EXCEPT ![ch] =
                     [NewInstance(cls[ch], kw[ch], NoRequest)
                         EXCEPT !.bound = cls[n].childName \in names]]

\* self.context.get('request'): the context of the root of the parent chain
RECURSIVE GetRequest(_, _)
GetRequest(S, n) ==
    IF n = 1 THEN request
    ELSE IF S[n].bound THEN GetRequest(S, n - 1)
    ELSE NoRequest

\* the field is a ListSerializer whose child has the mixin (many=True), or it
\* has the mixin itself
IsDynField(c) ==
    IF c.many THEN c.kind \in {"dyn", "mixin"} ELSE c.kind \in {"dyn", "mixin"}

\* the root's __init__: DynModelSerializer.__init__ and DynSerializerMixin.__init__
\* up to the call of exclude_omitted_fields
Construct ==
    /\ pc = "start"
    /\ LET self == NewInstance(cls[1], kw[1], request)
       IN /\ ser' = [ser EXCEPT ![1] = self]
          /\ IF self.st = "failed"
             THEN pc' = "failed" /\ cur' = 0 /\ frames' = frames
             ELSE IF LimitsFields(request)
                  THEN pc' = "exclude" /\ cur' = 1
                       /\ frames' = [frames EXCEPT ![1] = "False"]
                  ELSE pc' = "done" /\ cur' = 0 /\ frames' = frames
    /\ UNCHANGED <<cls, kw, request, db, ret>>

\* exclude_omitted_fields of level cur, up to its recursive call; when the
\* recursion ends the root's __init__ hands its context to its fields and returns
ExcludeOmittedFields ==
    /\ pc = "exclude"
    /\ LET n == cur
           limit_fields == ResolveLimitFields(ser[n], frames[n])
           S0 == IF cls[n].kind = "mixin" THEN BuildFields(ser, n) ELSE ser
           field_names == GetRequestedFieldNames(S0[n], cls[n], request)
           S1 == [S0 EXCEPT ![n] = SetRequestedFields(@, limit_fields, field_names)]
           S2 == BuildFields(S1, n)
           S3 == IF limit_fields = "True"
                 THEN [S2 EXCEPT ![n].fields = PopOmitted(@, field_names)]
                 ELSE S2
           ch == cls[n].child
       IN /\ ser' = S3
          /\ IF ch # 0 /\ cls[n].childName \in S3[n].fields /\ IsDynField(cls[ch])
             THEN /\ cur' = ch
                  /\ frames' = [frames EXCEPT ![ch] = limit_fields]
                  /\ pc' = "exclude"
             ELSE /\ cur' = 0
                  /\ frames' = frames
                  /\ pc' = "done"
    /\ UNCHANGED <<cls, kw, request, db, ret>>

\* a later access to self.fields (rendering, validation) of the root or of a
\* serializer of its registry
AccessFields(n) ==
    /\ pc = "done"
    /\ ser[n].st = "ok"
    /\ ~ser[n].built
    /\ n = 1 \/ ser[n].bound
    /\ ser' = BuildFields(ser, n)
    /\ UNCHANGED <<cls, kw, request, db, pc, cur, frames, ret>>

\* a variant without the assertion on the request
IsFieldRequestedOf_NoAssert(self, c, req, field_name) ==
    IF self.limit_fields = "True" /\ req.present
    THEN IF field_name \in GetRequestedFieldNames(self, c, req) THEN "True" ELSE "False"
    ELSE "True"

\* is_field_requested
IsFieldRequestedOf(self, c, req, field_name) ==
    IF self.limit_fields = "True"
    THEN IF ~req.present
         THEN "AssertionError"
         ELSE IF field_name \in GetRequestedFieldNames(self, c, req)
              THEN "True"
              ELSE "False"
    ELSE "True"

\* The two calls below leave the serializers as they are, so one observed
\* call per behaviour stands for every sequence of calls.
IsFieldRequested(n, field_name) ==
    /\ pc = "done"
    /\ ret = NoRet
    /\ ser[n].st = "ok"
    /\ cls[n].kind = "dyn"
    /\ n = 1 \/ ser[n].bound
    /\ ret' = [NoRet EXCEPT !.op = "is_field_requested", !.node = n,
                            !.field = field_name,
                            !.val = IsFieldRequestedOf(ser[n], cls[n],
                                                       GetRequest(ser, n), field_name)]
    /\ UNCHANGED <<cls, kw, request, db, ser, pc, cur, frames>>

\* Meta.model.objects.get(pk=data): the row, or the exception raised
ObjectsGet(rows, data) ==
    CASE data.type = "int" ->
            IF data.v \in rows
            THEN [exc |-> "none", obj |-> data.v]
            ELSE [exc |-> "ObjectDoesNotExist", obj |-> 0]
      [] data.type = "str" -> [exc |-> "ValueError", obj |-> 0]
      [] OTHER -> [exc |-> "TypeError", obj |-> 0]

\* a variant that catches ValueError alone
ToInternalValueOf_ValueErrorOnly(self, rows, data) ==
    IF ~self.nested
    THEN [val |-> "super", obj |-> 0]
    ELSE LET got == ObjectsGet(rows, data)
         IN CASE got.exc = "none" -> [val |-> "object", obj |-> got.obj]
              [] got.exc = "ObjectDoesNotExist" -> [val |-> "does_not_exist", obj |-> 0]
              [] got.exc = "ValueError" -> [val |-> "incorrect_type", obj |-> 0]
              [] OTHER -> [val |-> got.exc, obj |-> 0]

\* to_internal_value
ToInternalValueOf(self, rows, data) ==
    IF ~self.nested
    THEN [val |-> "super", obj |-> 0]
    ELSE LET got == ObjectsGet(rows, data)
         IN CASE got.exc = "none" -> [val |-> "object", obj |-> got.obj]
              [] got.exc = "ObjectDoesNotExist" -> [val |-> "does_not_exist", obj |-> 0]
              [] got.exc \in {"TypeError", "ValueError"} ->
                    [val |-> "incorrect_type", obj |-> 0]

\* the values a client passes for a nested field: integers, of which
\* MaxPk + 1 is the key of no row, a word, and a list
DataValues ==
    {[type |-> "int", v |-> k] : k \in 1..(MaxPk + 1)}
    \cup {[type |-> "str", v |-> 0], [type |-> "list", v |-> 0]}

ToInternalValue(n, data) ==
    /\ pc = "done"
    /\ ret = NoRet
    /\ ser[n].st = "ok"
    /\ cls[n].kind = "dyn"
    /\ n = 1 \/ ser[n].bound
    /\ LET r == ToInternalValueOf(ser[n], db, data)
       IN ret' = [NoRet EXCEPT !.op = "to_internal_value", !.node = n, !.data = data,
                               !.val = r.val, !.obj = r.obj]
    /\ UNCHANGED <<cls, kw, request, db, ser, pc, cur, frames>>

Next ==
    \/ Construct
    \/ ExcludeOmittedFields
    \/ \E n \in Nodes : AccessFields(n)
    \/ \E n \in Nodes, f \in {id, name, rel} : IsFieldRequested(n, f)
    \/ \E n \in Nodes, d \in DataValues : ToInternalValue(n, d)

Spec == Init /\ [][Next]_vars

----------------------------------------------------------------------------
(* Vocabulary of the properties *)

\* the piece s[i..j] lies between two commas, or an end, and holds no comma
IsPiece(s, i, j) ==
    /\ i = 1 \/ s[i - 1] = Comma
    /\ j = Len(s) \/ s[j + 1] = Comma
    /\ \A k \in i..j : s[k] # Comma

\* the names f1, f2, ... of the parameter value 'f1,f2,...'
Pieces(s) ==
    {SubSeq(s, i, j) : <<i, j>> \in
        {p \in (1..(Len(s) + 1)) \X (0..Len(s)) :
            p[2] >= p[1] - 1 /\ IsPiece(s, p[1], p[2])}}

ParamOf(n) == request.query_params[cls[n].fields_param]

IsGet == request.present /\ request.method = "GET"

IsDyn(n) == cls[n].kind = "dyn"

\* the client's selection at level n: the names of its own parameter that are
\* allowed, or the default fields when the parameter is absent
Selected(n) ==
    IF ParamOf(n).given
    THEN Pieces(ParamOf(n).val) \cap ser[n].allowed
    ELSE ser[n].default_fields

\* level n exposes exactly the set X: get_field_names returns X and the
\* registry, once built, holds X
Exposes(n, X) ==
    /\ GetFieldNames(ser[n], cls[n]) = X
    /\ ser[n].built => ser[n].fields = X

\* the limiting preference the level declares: the limit_fields argument,
\* else Meta.limit_fields, else none
Declared(n) ==
    IF kw[n].limit_fields # "absent" THEN kw[n].limit_fields ELSE cls[n].limit_fields

\* exclude_omitted_fields has run on level n
Propagated(n) == frames[n] # "none" /\ (pc = "done" \/ cur # n)

----------------------------------------------------------------------------
C1_WitnessDropped ==
    /\ pc = "done" /\ IsGet /\ IsDyn(1) /\ ser[1].st = "ok"
    /\ ParamOf(1).given /\ ParamOf(1).val = <<"i", "a">>
    /\ ser[1].fields = {}

(* C2: under a request that is not a GET, whatever its query parameters,   *)
(* the root and every nested serializer expose their full allowed set and  *)
(* exclude_omitted_fields is never applied.                                 *)
C2_WriteExposesAllAllowed ==
    (request.present /\ request.method # "GET") =>
        \A n \in Nodes :
            /\ frames[n] = "none"
            /\ (ser[n].st = "ok" /\ IsDyn(n) /\ (n > 1 \/ pc = "done")) =>
                   Exposes(n, SetAllowedFields(cls[n], kw[n].fields))
            /\ (ser[n].st = "ok" /\ ~IsDyn(n) /\ ser[n].built) =>
                   ser[n].fields = cls[n].fields.val

C2_Witness ==
    /\ request.present /\ request.method = "POST"
    /\ ParamOf(1).given /\ ParamOf(1).val = <<"i">>
    /\ \A n \in Nodes : IsDyn(n) /\ ser[n].built /\ ser[n].fields = {id, name, rel}

(* C3: an instance whose limit_fields flag is false exposes its full        *)
(* allowed set under every request.                                         *)
C3_LimitFalseExposesAllAllowed ==
    \A n \in Nodes :
        (pc = "done" /\ ser[n].st = "ok" /\ IsDyn(n) /\ ser[n].limit_fields = "False") =>
            Exposes(n, ser[n].allowed)

(* C4: on a GET, a nested serializer that declares limit_fields=false under *)
(* a parent that limits exposes its full allowed set, and a nested          *)
(* serializer that declares no preference is filtered as the parent's flag  *)
(* says.                                                                    *)
C4_NestedDeclarationOverrides ==
    \A n \in Nodes \ {1} :
        (pc = "done" /\ IsGet /\ ser[n].st = "ok" /\ Propagated(n)) =>
            /\ (Declared(n) = "False" /\ frames[n] = "True") =>
                   Exposes(n, ser[n].allowed)
            /\ (Declared(n) = "absent" /\ IsDyn(n) /\ frames[n] = "True") =>
                   Exposes(n, Selected(n))
            /\ (Declared(n) = "absent" /\ IsDyn(n) /\ frames[n] = "False") =>
                   Exposes(n, ser[n].allowed)

(* C5: in a tree author -> article -> review of limiting serializers served *)
(* by one GET, every level whose field survives in its ancestors is         *)
(* filtered by its own parameter alone: it exposes the allowed names of its *)
(* own parameter, or its own default fields.                                *)
AllLimiting == \A n \in Nodes : IsDyn(n) /\ Declared(n) = "True"

RECURSIVE Survives(_)
Survives(n) ==
    n = 1 \/ (Survives(n - 1) /\ ser[n - 1].built /\ cls[n - 1].childName \in ser[n - 1].fields)

C5_EachLevelOwnParameter ==
    (pc = "done" /\ IsGet /\ AllLimiting /\ ser[1].st = "ok") =>
        \A n \in Nodes :
            Survives(n) => /\ ser[n].st = "ok"
                           /\ ser[n].built
                           /\ Exposes(n, Selected(n))

\* author_fields=article, article_fields=review, review_fields=stars
C5_Witness ==
    /\ pc = "done" /\ IsGet /\ AllLimiting
    /\ ParamOf(1).val = <<"a">> /\ ParamOf(2).val = <<"a">> /\ ParamOf(3).val = <<"i">>
    /\ ParamOf(1).given /\ ParamOf(2).given /\ ParamOf(3).given
    /\ ser[1].fields = {rel} /\ ser[2].fields = {rel} /\ ser[3].fields = {id}

(* C6: in every state the exposed set of an instance is within its allowed *)
(* set, which is within the declared fields minus the excluded ones and    *)
(* within an explicit fields argument.                                      *)
DeclaredFields(n) == IF cls[n].fields.given THEN cls[n].fields.val ELSE cls[n].model_fields

ExcludedFields(n) == IF cls[n].exclude.given THEN cls[n].exclude.val ELSE {}

ExposedWithinAllowed(n) ==
    /\ GetFieldNames(ser[n], cls[n]) \subseteq ser[n].allowed
    /\ ser[n].fields \subseteq ser[n].allowed
    /\ ser[n].requested \subseteq ser[n].allowed
    /\ ser[n].allowed \subseteq DeclaredFields(n) \ ExcludedFields(n)

\* C6 as stated: an explicit fields argument always restricts
C6_ExposedWithinOverride ==
    \A n \in Nodes :
        (ser[n].st = "ok" /\ IsDyn(n)) =>
            /\ ExposedWithinAllowed(n)
            /\ kw[n].fields.given => ser[n].allowed \subseteq kw[n].fields.val

\* C6 as amended: an empty fields argument restricts nothing
C6_ExposedWithinNonEmptyOverride ==
    \A n \in Nodes :
        (ser[n].st = "ok" /\ IsDyn(n)) =>
            /\ ExposedWithinAllowed(n)
            /\ (kw[n].fields.given /\ kw[n].fields.val # {}) =>
                   ser[n].allowed \subseteq kw[n].fields.val

\* a GET that names an excluded field and a field outside the fields argument
C6_Witness ==
    /\ pc = "done" /\ IsGet /\ ser[1].st = "ok"
    /\ cls[1].exclude.given /\ cls[1].exclude.val = {name}
    /\ kw[1].fields.given /\ kw[1].fields.val = {id}
    /\ ParamOf(1).given /\ ParamOf(1).val = <<"i", Comma, "a">>
    /\ ser[1].fields = {id}

(* C7: construction fails whenever default_fields (Meta.default_fields, or  *)
(* ['id']) holds a name outside the allowed set, so every constructed       *)
(* instance has its default fields among its allowed fields.                *)
C7_DefaultFieldsChecked ==
    /\ (pc # "start" /\ IsDyn(1)
        /\ ~(DefaultFields(cls[1]) \subseteq SetAllowedFields(cls[1], kw[1].fields))) =>
           pc = "failed" /\ ser[1].st = "failed"
    /\ \A n \in Nodes :
           (ser[n].st = "ok" /\ IsDyn(n)) =>
               /\ ser[n].default_fields =
                      (IF cls[n].default_fields.given THEN cls[n].default_fields.val ELSE {id})
               /\ ser[n].default_fields \subseteq ser[n].allowed

\* the unspecified default ['id'] with id excluded
C7_Witness ==
    /\ pc = "failed" /\ cls[1].hasModel /\ cls[1].hasParam
    /\ ~cls[1].default_fields.given
    /\ cls[1].exclude.given /\ cls[1].exclude.val = {id}

(* C8: is_field_requested is true for every field when limiting is off;   *)
(* when it is on, it is true exactly for the fields of the selection of    *)
(* the current request, and it fails with an assertion error when there is *)
(* no request.                                                              *)
C8_IsFieldRequested ==
    ret.op = "is_field_requested" =>
        LET n == ret.node
        IN /\ ser[n].limit_fields # "True" => ret.val = "True"
           /\ (ser[n].limit_fields = "True" /\ ~request.present) =>
                  ret.val = "AssertionError"
           /\ (ser[n].limit_fields = "True" /\ request.present) =>
                  /\ ret.val \in {"True", "False"}
                  /\ ret.val = "True" <=> ret.field \in Selected(n)

C8_Witness ==
    /\ ret.op = "is_field_requested" /\ ret.val = "AssertionError"
    /\ ser[1].limit_fields = "True" /\ ~request.present

\* limiting on, a request present, and a field the client did not select
C8_WitnessNotRequested ==
    /\ ret.op = "is_field_requested" /\ ret.val = "False" /\ ret.node = 2
    /\ ret.field = name /\ ParamOf(2).given /\ ParamOf(2).val = <<"i", Comma, "a">>

(* C9: to_internal_value of an instance marked nested takes the value as a *)
(* primary key: the row when it exists, does_not_exist when it does not,   *)
(* incorrect_type for a value that is no key; an instance not marked       *)
(* nested uses the standard conversion.                                     *)
C9_ToInternalValue ==
    ret.op = "to_internal_value" =>
        LET n == ret.node
            d == ret.data
        IN IF kw[n].nested
           THEN /\ (d.type = "int" /\ d.v \in db) => (ret.val = "object" /\ ret.obj = d.v)
                /\ (d.type = "int" /\ d.v \notin db) => ret.val = "does_not_exist"
                /\ d.type \in {"str", "list"} => ret.val = "incorrect_type"
           ELSE ret.val = "super"

C9_Witness ==
    /\ ret.op = "to_internal_value" /\ kw[ret.node].nested
    /\ ret.data.type = "list" /\ ret.val = "incorrect_type"

(* C10: the allowed set, the default set, the limit flag and the requested *)
(* set of an instance are computed once, at its initialisation, and a      *)
(* field is never put back into a registry; for nested instances too.      *)
\* __init__ of the instance of level n has returned
Initialised(n) == IF n = 1 THEN pc = "done" ELSE ser[n].st = "ok"

ConfigurationKept(n) ==
    /\ ser'[n].st = ser[n].st
    /\ ser'[n].allowed = ser[n].allowed
    /\ ser'[n].default_fields = ser[n].default_fields
    /\ ser'[n].limit_fields = ser[n].limit_fields
    /\ ser[n].built => (ser'[n].built /\ ser'[n].fields \subseteq ser[n].fields)

\* C10 as stated: the requested set never changes either
C10_ComputedOnce ==
    [][\A n \in Nodes :
          Initialised(n) =>
              /\ ConfigurationKept(n)
              /\ IsDyn(n) => ser'[n].requested = ser[n].requested]_vars

\* C10 as amended: the requested set of a nested instance is assigned
\* anew by the one call of exclude_omitted_fields the parent's GET filtering
\* makes on it, and never otherwise
C10_ComputedOnceButPropagation ==
    [][\A n \in Nodes :
          Initialised(n) =>
              /\ ConfigurationKept(n)
              /\ ser'[n].requested # ser[n].requested =>
                     (n > 1 /\ IsGet /\ pc = "exclude" /\ cur = n)]_vars

\* a nested instance, created exposing all its allowed fields, after the
\* parent's filtering reached it
C10_Witness ==
    /\ pc = "done" /\ IsGet /\ IsDyn(2) /\ Propagated(2)
    /\ ser[2].allowed = {id, name, rel}
    /\ ser[2].requested = {id} /\ ser[2].fields = {id}

====
